---- MODULE Spec2Model ----
(***************************************************************************)
(* A model of ffbookmarks-to-markdown: the content resolver                *)
(* (internal/web), the content cache (internal/x), the cleanup client      *)
(* (internal/llm), the markdown processor and output cache                 *)
(* (internal/markdown) and the orchestration in cmd/main.go.               *)
(*                                                                         *)
(* Strings are TLA+ strings handled character by character (SubSeq, Len,   *)
(* \o), so that every conversion of the program (trimming, splitting,      *)
(* link rewriting, file-name derivation, frontmatter rendering and         *)
(* parsing) is computed the way the Go code computes it.                   *)
(***************************************************************************)
EXTENDS Integers, Sequences, FiniteSets, TLC

(***************************************************************************)
(* Go's strings package, on TLA+ strings.                                  *)
(***************************************************************************)

CharAt(s, i) == SubSeq(s, i, i)

HasPrefix(s, p) == Len(p) <= Len(s) /\ SubSeq(s, 1, Len(p)) = p

HasSuffix(s, p) == Len(p) <= Len(s) /\ SubSeq(s, Len(s) - Len(p) + 1, Len(s)) = p

TrimPrefix(s, p) == IF HasPrefix(s, p) THEN SubSeq(s, Len(p) + 1, Len(s)) ELSE s

TrimSuffix(s, p) == IF HasSuffix(s, p) THEN SubSeq(s, 1, Len(s) - Len(p)) ELSE s

\* strings.Index, 1-based; 0 when sep does not occur at or after position from
IndexFrom(s, sep, from) ==
    LET hits == {i \in from..(Len(s) - Len(sep) + 1) : SubSeq(s, i, i + Len(sep) - 1) = sep}
    IN  IF hits = {} THEN 0 ELSE CHOOSE i \in hits : \A j \in hits : i <= j

Index(s, sep) == IndexFrom(s, sep, 1)

Contains(s, sep) == Index(s, sep) # 0

IsSpace(c) == c \in {" ", "\t", "\n", "\r", "\f"}

RECURSIVE TrimLeftSpace(_)
TrimLeftSpace(s) ==
    IF Len(s) > 0 /\ IsSpace(CharAt(s, 1)) THEN TrimLeftSpace(SubSeq(s, 2, Len(s))) ELSE s

RECURSIVE TrimRightSpace(_)
TrimRightSpace(s) ==
    IF Len(s) > 0 /\ IsSpace(CharAt(s, Len(s))) THEN TrimRightSpace(SubSeq(s, 1, Len(s) - 1)) ELSE s

TrimSpace(s) == TrimRightSpace(TrimLeftSpace(s))

\* strings.Trim(s, c) for a one-character cutset
RECURSIVE TrimChar(_, _)
TrimChar(s, c) ==
    IF Len(s) > 0 /\ CharAt(s, 1) = c THEN TrimChar(SubSeq(s, 2, Len(s)), c)
    ELSE IF Len(s) > 0 /\ CharAt(s, Len(s)) = c THEN TrimChar(SubSeq(s, 1, Len(s) - 1), c)
    ELSE s

\* strings.Split(s, sep) for a non-empty sep: a sequence of strings, never empty
RECURSIVE Split(_, _)
Split(s, sep) ==
    LET i == Index(s, sep)
    IN  IF i = 0 THEN <<s>>
        ELSE <<SubSeq(s, 1, i - 1)>> \o Split(SubSeq(s, i + Len(sep), Len(s)), sep)

RECURSIVE Join(_, _)
Join(parts, sep) ==
    IF Len(parts) = 0 THEN ""
    ELSE IF Len(parts) = 1 THEN parts[1]
    ELSE parts[1] \o sep \o Join(Tail(parts), sep)

\* strings.ReplaceAll(s, old, new) for a one-character old
RECURSIVE ReplaceAll(_, _, _)
ReplaceAll(s, old, new) ==
    IF Len(s) = 0 THEN ""
    ELSE (IF CharAt(s, 1) = old THEN new ELSE CharAt(s, 1))
         \o ReplaceAll(SubSeq(s, 2, Len(s)), old, new)

\* strings.Fields: the maximal runs of non-space characters
RECURSIVE Fields(_)
Fields(s) ==
    LET t == TrimLeftSpace(s)
        ws == {i \in 1..Len(t) : IsSpace(CharAt(t, i))}
        e == IF ws = {} THEN Len(t) + 1 ELSE CHOOSE i \in ws : \A j \in ws : i <= j
    IN  IF Len(t) = 0 THEN <<>>
        ELSE <<SubSeq(t, 1, e - 1)>> \o Fields(SubSeq(t, e, Len(t)))

UpperLetters == "ABCDEFGHIJKLMNOPQRSTUVWXYZ"

LowerLetters == "abcdefghijklmnopqrstuvwxyz"

\* strings.ToLower on ASCII
RECURSIVE ToLower(_)
ToLower(s) ==
    IF Len(s) = 0 THEN ""
    ELSE LET c == CharAt(s, 1)
             k == Index(UpperLetters, c)
         IN  (IF k = 0 THEN c ELSE CharAt(LowerLetters, k)) \o ToLower(SubSeq(s, 2, Len(s)))

(***************************************************************************)
(* net/url: Parse, for URLs of the shape scheme://host/path?query#fragment *)
(***************************************************************************)

\* url.Parse rejects a URL holding a control character or a space in the host
ParseFails(u) ==
    \/ Contains(u, "\n")
    \/ LET a == Index(u, "://")
           rest == IF a = 0 THEN "" ELSE SubSeq(u, a + 3, Len(u))
           host == Split(Split(Split(rest, "#")[1], "?")[1], "/")[1]
       IN  Contains(host, " ")

ParseURL(u) ==
    LET noFrag == Split(u, "#")[1]
        q == Index(noFrag, "?")
        beforeQ == IF q = 0 THEN noFrag ELSE SubSeq(noFrag, 1, q - 1)
        query == IF q = 0 THEN "" ELSE SubSeq(noFrag, q + 1, Len(noFrag))
        a == Index(beforeQ, "://")
        scheme == IF a = 0 THEN "" ELSE SubSeq(beforeQ, 1, a - 1)
        rest == IF a = 0 THEN "" ELSE SubSeq(beforeQ, a + 3, Len(beforeQ))
        sl == Index(rest, "/")
    IN  [Scheme |-> scheme,
         Host |-> IF a = 0 THEN "" ELSE IF sl = 0 THEN rest ELSE SubSeq(rest, 1, sl - 1),
         Path |-> IF a = 0 THEN beforeQ ELSE IF sl = 0 THEN "" ELSE SubSeq(rest, sl, Len(rest)),
         RawQuery |-> query]

\* url.Values.Get: the first value of the key in the query, "" when absent
RECURSIVE QueryGetIn(_, _)
QueryGetIn(pairs, key) ==
    IF Len(pairs) = 0 THEN ""
    ELSE LET kv == pairs[1]
             e == Index(kv, "=")
             k == IF e = 0 THEN kv ELSE SubSeq(kv, 1, e - 1)
             v == IF e = 0 THEN "" ELSE SubSeq(kv, e + 1, Len(kv))
         IN  IF k = key THEN v ELSE QueryGetIn(Tail(pairs), key)

QueryGet(rawQuery, key) ==
    IF rawQuery = "" THEN "" ELSE QueryGetIn(Split(rawQuery, "&"), key)

(***************************************************************************)
(* internal/web/youtube.go                                                 *)
(***************************************************************************)

\* A fetcher's result: Go's (string, error) pair, and the sequence of network
\* requests the call made.
Result(ok, content, err) ==
    [ok |-> ok, content |-> content, err |-> err, reqs |-> <<>>]

YouTubeVideoID(u) ==
    IF u.Host \in {"youtube.com", "www.youtube.com"}
    THEN IF u.Path = "/watch" THEN QueryGet(u.RawQuery, "v") ELSE ""
    ELSE IF u.Host = "youtu.be" THEN TrimPrefix(u.Path, "/")
    ELSE ""

YouTubeEmbed(videoID) ==
    "<iframe width=\"560\" height=\"315\" src=\"https://www.youtube.com/embed/" \o videoID
    \o "\" frameborder=\"0\" allow=\"accelerometer; autoplay; clipboard-write; encrypted-media; gyroscope; picture-in-picture\" allowfullscreen></iframe>"

YouTubeFetch(u) ==
    LET videoID == YouTubeVideoID(u)
    IN  IF videoID = "" THEN Result(FALSE, "", "could not extract video ID from URL")
        ELSE Result(TRUE, YouTubeEmbed(videoID), "")

(***************************************************************************)
(* internal/web/github.go: GitHubFetcher                                   *)
(***************************************************************************)

\* The list with its first two names exchanged: the order C8 depends on
readmeFilesSwapped == <<"README.MD", "README.md", "README.org", "Readme.md", "readme.md">>

readmeFiles == <<"README.md", "README.MD", "README.org", "Readme.md", "readme.md">>

\* What one GET of a raw readme URL can come to: a transport error (after the
\* retry wrapper gave up), a 404, another non-200 status, a body that cannot
\* be read, or 200 with a body.
GhOutcomes == {"neterr", "404", "403", "readerr", "ok"}

\* The loop of Fetch from candidate i on. out[i] is the outcome of the request
\* for readmeFiles[i], body[i] the content served for it; lastErr is "" for nil.
RECURSIVE GitHubLoop(_, _, _, _, _, _)
GitHubLoop(baseURL, i, out, body, lastErr, reqs) ==
    IF i > Len(readmeFiles)
    THEN [Result(FALSE, "", "failed to fetch any readme file: "
                            \o (IF lastErr = "" THEN "%!w(<nil>)" ELSE lastErr))
            EXCEPT !.reqs = reqs]
    ELSE LET rawURL == baseURL \o readmeFiles[i]
             sent == Append(reqs, rawURL)
         IN  IF out[i] = "neterr"
             THEN GitHubLoop(baseURL, i + 1, out, body, "failed to fetch github readme: transport", sent)
             ELSE IF out[i] = "404"
             THEN GitHubLoop(baseURL, i + 1, out, body, lastErr, sent)
             ELSE IF out[i] # "ok" /\ out[i] # "readerr"
             THEN GitHubLoop(baseURL, i + 1, out, body, "failed to fetch github readme: " \o out[i], sent)
             ELSE IF out[i] = "readerr"
             THEN GitHubLoop(baseURL, i + 1, out, body, "failed to read github readme: read", sent)
             ELSE [Result(TRUE, body[i], "") EXCEPT !.reqs = sent]

GitHubFetch(u, out, body) ==
    LET parts == Split(TrimChar(u.Path, "/"), "/")
    IN  IF Len(parts) < 2 THEN Result(FALSE, "", "invalid GitHub URL format")
        ELSE LET repo == parts[1] \o "/" \o parts[2]
                 baseURL == "https://raw.githubusercontent.com/" \o repo \o "/HEAD/"
             IN  GitHubLoop(baseURL, 1, out, body, "", <<>>)


(***************************************************************************)
(* internal/web/github.go: fixMarkdownLinks and MarkdownFetcher            *)
(***************************************************************************)

NoNewline(s, a, b) == ~Contains(SubSeq(s, a, b), "\n")

\* The leftmost-first match of (!)?\[(.*?)\]\((.*?)\) starting exactly at i:
\* the optional "!", "[", the shortest text and then the shortest target for
\* which the whole pattern matches; "." does not match a newline.
MinOf(S) == CHOOSE m \in S : \A n \in S : m <= n

\* The positions k of a ")" that can end a target starting at from
LinkCloses(s, from) ==
    {k \in from..Len(s) : CharAt(s, k) = ")" /\ NoNewline(s, from, k - 1)}

\* The positions j of a "](" that can end a text starting at ts
LinkMids(s, ts) ==
    {j \in ts..(Len(s) - 1) :
        SubSeq(s, j, j + 1) = "](" /\ NoNewline(s, ts, j - 1) /\ LinkCloses(s, j + 2) # {}}

LinkMatchOf(s, bang, ts, j, k) ==
    [found |-> TRUE, bang |-> bang, text |-> SubSeq(s, ts, j - 1),
     link |-> SubSeq(s, j + 2, k - 1), end |-> k]

LinkMatchIn(s, bang, ts, mids) ==
    IF mids = {} THEN [found |-> FALSE]
    ELSE LinkMatchOf(s, bang, ts, MinOf(mids), MinOf(LinkCloses(s, MinOf(mids) + 2)))

LinkMatchFrom(s, bang, lb) ==
    IF CharAt(s, lb) # "[" THEN [found |-> FALSE]
    ELSE LinkMatchIn(s, bang, lb + 1, LinkMids(s, lb + 1))

LinkMatchAt(s, i) ==
    LinkMatchFrom(s, CharAt(s, i) = "!", IF CharAt(s, i) = "!" THEN i + 1 ELSE i)

\* The replacement function of fixMarkdownLinks for one match. It returns the
\* new text and the value of the captured baseURL variable afterwards (the
\* closure assigns the trimmed value back to it).
FixOneLink(m, matched, baseURL) ==
    IF HasPrefix(m.link, "data:") \/ HasPrefix(m.link, "http://") \/ HasPrefix(m.link, "https://")
    THEN [text |-> matched, base |-> baseURL]
    ELSE LET base == TrimSuffix(baseURL, "/")
             link == IF HasPrefix(m.link, "/") THEN m.link ELSE "/" \o m.link
         IN  [text |-> (IF m.bang THEN "!" ELSE "") \o "[" \o m.text \o "](" \o base \o link \o ")",
              base |-> base]

\* ReplaceAllStringFunc: the matches are found from left to right, none
\* overlapping, and the text between them is kept.
RECURSIVE FixLinksFrom(_, _, _)
FixLinksStep(s, i, baseURL, m) ==
    IF ~m.found THEN [text |-> CharAt(s, i), next |-> i + 1, base |-> baseURL]
    ELSE FixOneLink(m, SubSeq(s, i, m.end), baseURL) @@ [next |-> m.end + 1]

FixLinksRest(s, st) == st.text \o FixLinksFrom(s, st.next, st.base)

FixLinksFrom(s, i, baseURL) ==
    IF i > Len(s) THEN "" ELSE FixLinksRest(s, FixLinksStep(s, i, baseURL, LinkMatchAt(s, i)))

fixMarkdownLinks(content, baseURL) == FixLinksFrom(content, 1, baseURL)

\* "Remove empty lines" at the end of MarkdownFetcher.clean
RECURSIVE DropBlank(_)
DropBlank(lines) ==
    IF Len(lines) = 0 THEN <<>>
    ELSE (IF TrimSpace(lines[1]) # "" THEN <<lines[1]>> ELSE <<>>) \o DropBlank(Tail(lines))

RemoveEmptyLines(content) == Join(DropBlank(Split(content, "\n")), "\n")

\* What the GET of the extraction service can come to.
MdOutcomes == {"neterr", "readerr", "403", "ok"}

fetchRaw(u, rawURL, out, body) ==
    LET req == <<"https://md.dhr.wtf/?url=" \o rawURL \o "&enableDetailedResponse=true">>
    IN  IF out = "neterr" THEN Result(FALSE, "", "error creating request")
        ELSE IF out = "readerr" THEN [Result(FALSE, "", "error reading response") EXCEPT !.reqs = req]
        ELSE IF out # "ok" THEN [Result(FALSE, "", "request failed with status: " \o out) EXCEPT !.reqs = req]
        ELSE [Result(TRUE, body, "") EXCEPT !.reqs = req]

(***************************************************************************)
(* internal/x/cache.go: FileCache. A cache handle is "ok" (a FileCache),    *)
(* "nilptr" (the nil *FileCache that NewFileCache returns with its error,   *)
(* stored in an interface value) or "absent" (a nil interface). The data is *)
(* the directory: a function from keys (file names) to contents.            *)
(***************************************************************************)

\* sha256 then base64: injective for all the model can tell
HashKey(s) == <<"sha256", s>>

\* A cache that never answers: what C10 excludes
CacheNeverHit(data, key) == FALSE

CacheHit(data, key) == key \in DOMAIN data

CacheSet(data, key, content, setOK) ==
    IF setOK THEN [k \in DOMAIN data \cup {key} |-> IF k = key THEN content ELSE data[k]]
    ELSE data

(***************************************************************************)
(* internal/llm: OpenAIClient.callLLM and CleanMarkdown                    *)
(***************************************************************************)

\* The prompt template, cut to its first and last lines.
cleanMarkdownPrompt ==
    "Clean and enhance this markdown content following these strict rules:\n\nContent to clean:\n"

llmModel == "gemini-2.0-flash"

getCacheKey(model, prompt) == HashKey(model \o "\n---\n" \o prompt)

\* What a chat-completion request can come to: an error, a response without
\* choices, or a response whose first choice carries a text.
LlmOutcomes == {"err", "nochoices", "ok"}

\* A TLA+ string cannot hold a backquote: the code fence of three backquotes
\* is written "~~~" throughout.
Fence == "~~~"

StripFence(text) ==
    TrimSuffix(TrimPrefix(TrimPrefix(TrimSpace(text), Fence \o "markdown\n"), Fence \o "\n"),
               "\n" \o Fence)

\* callLLM: Go's (string, error) pair, a panic, the cache directory afterwards,
\* the cache operations and the number of model requests made. A nil cache
\* makes c.cache.Get panic; a response without choices makes Choices[0] panic.
LlmBase(data, prompt) ==
    [ok |-> FALSE, content |-> "", err |-> "", panic |-> FALSE,
     data |-> data, ops |-> <<>>, llmReqs |-> 0, prompt |-> prompt]

callLLMKeyed(base, key, handle, data, out, response, setOK) ==
    IF handle # "ok" THEN [base EXCEPT !.panic = TRUE]
    ELSE IF CacheHit(data, key)
    THEN [base EXCEPT !.ok = TRUE, !.content = data[key], !.ops = <<<<"Get", key>>>>]
    ELSE IF out = "err"
    THEN [base EXCEPT !.err = "LLM request failed", !.ops = <<<<"Get", key>>>>, !.llmReqs = 1]
    ELSE IF out = "nochoices"
    THEN [base EXCEPT !.panic = TRUE, !.ops = <<<<"Get", key>>>>, !.llmReqs = 1]
    ELSE [base EXCEPT !.ok = TRUE, !.content = response,
                      !.data = CacheSet(data, key, response, setOK),
                      !.ops = <<<<"Get", key>>, <<"Set", key>>>>, !.llmReqs = 1]

callLLM(handle, data, prompt, out, text, setOK) ==
    callLLMKeyed(LlmBase(data, prompt), getCacheKey(llmModel, prompt), handle, data, out,
                 StripFence(text), setOK)

CleanMarkdown(handle, data, content, out, text, setOK) ==
    callLLM(handle, data, cleanMarkdownPrompt \o content, out, text, setOK)


(***************************************************************************)
(* internal/web/github.go: MarkdownFetcher.Fetch and clean;                *)
(* internal/web/fetcher.go: ContentService.FetchContent                    *)
(***************************************************************************)

\* What a call of the content service comes to: Go's (string, error) pair, a
\* panic raised inside the call, the cache directory afterwards, the cache
\* operations and the network and model requests it made.
Outcome(ok, content, err) ==
    [ok |-> ok, content |-> content, err |-> err, panic |-> FALSE,
     ops |-> <<>>, reqs |-> <<>>, llmReqs |-> 0, llmCalls |-> <<>>]

\* What is kept of one callLLM call inside a resolver call
LlmCall(c) ==
    [prompt |-> c.prompt, ok |-> c.ok, content |-> c.content, panic |-> c.panic,
     llmReqs |-> c.llmReqs, wrote |-> CacheHit(c.data, getCacheKey(llmModel, c.prompt))]

\* The second half of MarkdownFetcher.clean: fixed is the link-rewritten
\* content, c the outcome of f.cleaner.CleanMarkdown(fixed). A cleaning error
\* is logged and the link-rewritten content kept; a panic is not caught.
cleanWith(fixed, c) ==
    IF c.panic
    THEN [Outcome(FALSE, "", "") EXCEPT !.panic = TRUE, !.ops = c.ops, !.llmReqs = c.llmReqs,
                                        !.llmCalls = <<LlmCall(c)>>] @@ [data |-> c.data]
    ELSE [Outcome(TRUE, RemoveEmptyLines(IF c.ok THEN c.content ELSE fixed), "")
            EXCEPT !.ops = c.ops, !.llmReqs = c.llmReqs, !.llmCalls = <<LlmCall(c)>>]
         @@ [data |-> c.data]

cleanFixed(fixed, cleaner, handle, data, env) ==
    IF ~cleaner THEN Outcome(TRUE, RemoveEmptyLines(fixed), "") @@ [data |-> data]
    ELSE cleanWith(fixed, CleanMarkdown(handle, data, fixed, env.llm, env.llmText, env.llmSetOK))

\* MarkdownFetcher.clean. cleaner tells whether f.cleaner is set.
clean(content, u, cleaner, handle, data, env) ==
    cleanFixed(fixMarkdownLinks(content, u.Scheme \o "://" \o u.Host \o u.Path),
               cleaner, handle, data, env)

MarkdownFetchWith(raw, u, cleaner, handle, data, env) ==
    IF ~raw.ok THEN [Outcome(FALSE, "", raw.err) EXCEPT !.reqs = raw.reqs] @@ [data |-> data]
    ELSE [clean(raw.content, u, cleaner, handle, data, env) EXCEPT !.reqs = raw.reqs]

MarkdownFetch(u, rawURL, cleaner, handle, data, env) ==
    MarkdownFetchWith(fetchRaw(u, rawURL, env.md, env.mdBody), u, cleaner, handle, data, env)

getURLKey(rawURL) == HashKey(rawURL)

\* A fetcher's result as the outcome of the call, the cache left as it was
FromResult(r, data) ==
    [Outcome(r.ok, r.content, r.err) EXCEPT !.reqs = r.reqs] @@ [data |-> data]

\* The switch on parsedURL.Host
Dispatch(u, rawURL, cfg, data, env) ==
    IF u.Host \in {"youtube.com", "www.youtube.com", "youtu.be"}
    THEN FromResult(YouTubeFetch(u), data)
    ELSE IF u.Host \in {"github.com", "www.github.com"}
    THEN FromResult(GitHubFetch(u, env.gh, env.ghBody), data)
    ELSE MarkdownFetch(u, rawURL, cfg.cleaner, cfg.cache, data, env)

\* The end of FetchContent after a miss: r is the fetcher's outcome, pre the
\* cache operations made before it.
FetchMiss(r, key, pre, cached, setOK) ==
    IF r.panic \/ ~r.ok THEN [r EXCEPT !.ops = pre \o r.ops]
    ELSE IF cached
    THEN [r EXCEPT !.ops = pre \o r.ops \o <<<<"Set", key>>>>,
                   !.data = CacheSet(r.data, key, r.content, setOK)]
    ELSE r

FetchKeyed(rawURL, key, cfg, data, env) ==
    IF ParseFails(rawURL) THEN Outcome(FALSE, "", "invalid URL") @@ [data |-> data]
    ELSE IF cfg.cache = "nilptr"
    THEN [Outcome(FALSE, "", "") EXCEPT !.panic = TRUE] @@ [data |-> data]
    ELSE IF cfg.cache = "ok" /\ CacheHit(data, key)
    THEN [Outcome(TRUE, data[key], "") EXCEPT !.ops = <<<<"Get", key>>>>] @@ [data |-> data]
    ELSE FetchMiss(Dispatch(ParseURL(rawURL), rawURL, cfg, data, env), key,
                   IF cfg.cache = "ok" THEN <<<<"Get", key>>>> ELSE <<>>,
                   cfg.cache = "ok", env.setOK)

\* FetchContent(u). cfg.cache is the handle held in s.cache (and in the
\* cleaner), cfg.cleaner whether a cleaner is configured, data the cache
\* directory, env what the outside world answers during this call.
FetchContent(rawURL, cfg, data, env) == FetchKeyed(rawURL, getURLKey(rawURL), cfg, data, env)


(***************************************************************************)
(* time: time.Unix(sec, 0).Format with the layouts "2006-01-02" and "2006" *)
(* (the zone taken as UTC).                                                *)
(***************************************************************************)

Digits == <<"0", "1", "2", "3", "4", "5", "6", "7", "8", "9">>

RECURSIVE Itoa(_)
Itoa(n) == IF n < 10 THEN Digits[n + 1] ELSE Itoa(n \div 10) \o Digits[(n % 10) + 1]

Pad2(n) == IF n < 10 THEN "0" \o Itoa(n) ELSE Itoa(n)

\* The civil date of a day number counted from 1970-01-01
CivilMonth(mp) == IF mp < 10 THEN mp + 3 ELSE mp - 9

CivilOfMp(y, doy, mp) ==
    [year |-> IF CivilMonth(mp) <= 2 THEN y + 1 ELSE y,
     month |-> CivilMonth(mp),
     day |-> doy - ((153 * mp + 2) \div 5) + 1]

CivilOfDoy(y, doy) == CivilOfMp(y, doy, (5 * doy + 2) \div 153)

CivilOfYoe(era, doe, yoe) ==
    CivilOfDoy(yoe + era * 400, doe - (365 * yoe + (yoe \div 4) - (yoe \div 100)))

CivilOfDoe(era, doe) ==
    CivilOfYoe(era, doe,
               (doe - (doe \div 1460) + (doe \div 36524) - (doe \div 146096)) \div 365)

CivilOfZ(z) == CivilOfDoe(z \div 146097, z % 146097)

CivilFromUnix(sec) == CivilOfZ((sec \div 86400) + 719468)

FormatCivil(c) == Itoa(c.year) \o "-" \o Pad2(c.month) \o "-" \o Pad2(c.day)

FormatDate(sec) == FormatCivil(CivilFromUnix(sec))

FormatYear(sec) == Itoa(CivilFromUnix(sec).year)

(***************************************************************************)
(* internal/markdown: Frontmatter, file names, the ignore list             *)
(***************************************************************************)

writeKV(key, value) == IF value = "" THEN "" ELSE key \o ": " \o value \o "\n"

writeList(key, values) ==
    IF Len(values) = 0 THEN "" ELSE key \o ": [\"" \o Join(values, ", ") \o "\"]\n"

\* Frontmatter.String
FrontmatterString(f) ==
    "---\n"
    \o (IF Contains(f.Title, "'") THEN writeKV("title", "\"" \o f.Title \o "\"")
        ELSE writeKV("title", "'" \o f.Title \o "'"))
    \o writeKV("url", f.URL)
    \o writeKV("path", f.Path)
    \o writeKV("description", f.Description)
    \o writeKV("created_at", f.CreatedAt)
    \o writeKV("id", f.ID)
    \o writeKV("cssclasses", "line3")
    \o writeList("tags", f.Tags)
    \o "---"

\* extractDomain
DomainOfHost(domain) ==
    IF Index(domain, ":") # 0 THEN SubSeq(domain, 1, Index(domain, ":") - 1) ELSE domain

extractDomain(url) ==
    DomainOfHost(TrimPrefix(Split(TrimPrefix(TrimPrefix(url, "https://"), "http://"), "/")[1], "www."))

invalidChars == <<"/", "\\", ":", "*", "?", "\"", "<", ">", "|">>

RECURSIVE ReplaceInvalid(_, _)
ReplaceInvalid(title, i) ==
    IF i > Len(invalidChars) THEN title
    ELSE ReplaceInvalid(ReplaceAll(title, invalidChars[i], " "), i + 1)

FilenameOf(domain, title) ==
    IF domain # "" /\ ~HasPrefix(ToLower(title), ToLower(domain))
    THEN domain \o " - " \o title \o ".md"
    ELSE title \o ".md"

\* sanitizeFilename
sanitizeFilename(title, url) ==
    FilenameOf(extractDomain(url), Join(Fields(ReplaceInvalid(title, 1)), " "))

\* filepath.Join of a folder path and a name, both relative to the output
\* directory and already clean; "" is the output directory itself.
JoinPath(dir, name) == IF dir = "" THEN name ELSE dir \o "/" \o name

\* main.go: the -ignore flag split into the ignored folders list
IgnoredFoldersList(ignoreFolders) ==
    IF ignoreFolders = "" THEN <<>> ELSE Split(ignoreFolders, ",")

\* The comparison without the trimming: what C4 excludes
shouldIgnoreUntrimmed(ignoredFolders, name) ==
    \E i \in 1..Len(ignoredFolders) : ignoredFolders[i] = name

\* Processor.shouldIgnoreFolder
shouldIgnoreFolder(ignoredFolders, name) ==
    \E i \in 1..Len(ignoredFolders) : TrimSpace(ignoredFolders[i]) = name

\* ScreenshotService.GetScreenshotURL
screenshotAPI == "https://shots.test"

RECURSIVE ReplaceEach(_, _, _)
ReplaceEach(s, olds, new) ==
    IF olds = <<>> THEN s ELSE ReplaceEach(ReplaceAll(s, Head(olds), new), Tail(olds), new)

GetScreenshotURL(url) ==
    screenshotAPI \o "/screenshots/"
    \o ReplaceEach(url, <<"/", ":", "?", "=", "&", "_", "#">>, "-") \o ".jpeg"

(***************************************************************************)
(* frontmatter.Parse as BuildCache calls it: the first non-blank line must *)
(* be "---", the block runs to the next line that is "---", and the block  *)
(* is read as a YAML mapping of one "key: value" pair per line.            *)
(***************************************************************************)

\* readLine: the line that starts at position p, without its newline; eof
\* tells that the text ended before a newline.
LineAt(s, p, nl) ==
    IF nl = 0 THEN [text |-> SubSeq(s, p, Len(s)), next |-> Len(s) + 1, eof |-> TRUE]
    ELSE [text |-> SubSeq(s, p, nl - 1), next |-> nl + 1, eof |-> FALSE]

\* reader.ReadString('\n'): the position of the next newline from p on, 0
\* when the text ends first
RECURSIVE NewlineFrom(_, _)
NewlineFrom(s, p) ==
    IF p > Len(s) THEN 0 ELSE IF CharAt(s, p) = "\n" THEN p ELSE NewlineFrom(s, p + 1)

ReadLine(s, p) == LineAt(s, p, NewlineFrom(s, p))

\* detect: blank lines are skipped; a first line other than "---", or the
\* end of the text, means no front matter. The result is the position after
\* the opening line, 0 for none.
RECURSIVE Detect(_, _)
DetectLine(s, line) ==
    IF line.eof THEN 0
    ELSE IF TrimSpace(line.text) = "" THEN Detect(s, line.next)
    ELSE IF TrimSpace(line.text) = "---" THEN line.next
    ELSE 0

Detect(s, p) == DetectLine(s, ReadLine(s, p))

\* extract: the lines up to the next line that is "---"; found is FALSE when
\* the text ends first.
RECURSIVE Extract(_, _, _)
ExtractLine(s, line, acc) ==
    IF TrimSpace(line.text) = "---" THEN [found |-> TRUE, lines |-> acc]
    ELSE IF line.eof THEN [found |-> FALSE, lines |-> <<>>]
    ELSE Extract(s, line.next, Append(acc, line.text))

Extract(s, p, acc) == ExtractLine(s, ReadLine(s, p), acc)

\* The position of the double quote that closes a double-quoted scalar
\* opened at position 1, or 0; a backslash escapes the next character.
RECURSIVE ClosingQuote(_, _)
ClosingQuote(v, i) ==
    IF i > Len(v) THEN 0
    ELSE IF CharAt(v, i) = "\\" THEN ClosingQuote(v, i + 2)
    ELSE IF CharAt(v, i) = "\"" THEN i
    ELSE ClosingQuote(v, i + 1)

\* The escapes \" and \\ of a double-quoted scalar
RECURSIVE Unescape(_)
Unescape(v) ==
    IF v = "" THEN ""
    ELSE IF CharAt(v, 1) = "\\" /\ Len(v) >= 2 THEN CharAt(v, 2) \o Unescape(SubSeq(v, 3, Len(v)))
    ELSE CharAt(v, 1) \o Unescape(Tail(v))

Scalar(ok, value) == [ok |-> ok, value |-> value]

DoubleQuoted(v, close) ==
    IF close = 0 \/ TrimSpace(SubSeq(v, close + 1, Len(v))) # "" THEN Scalar(FALSE, "")
    ELSE Scalar(TRUE, Unescape(SubSeq(v, 2, close - 1)))

SingleQuoted(v) ==
    IF Len(v) < 2 \/ ~HasSuffix(v, "'") \/ Contains(SubSeq(v, 2, Len(v) - 1), "'")
    THEN Scalar(FALSE, "")
    ELSE Scalar(TRUE, SubSeq(v, 2, Len(v) - 1))

\* A YAML scalar on one line: single-quoted, double-quoted, a flow sequence
\* (kept as written) or plain; a plain scalar cannot hold ": ".
YamlScalar(v) ==
    IF HasPrefix(v, "'") THEN SingleQuoted(v)
    ELSE IF HasPrefix(v, "\"") THEN DoubleQuoted(v, ClosingQuote(v, 2))
    ELSE IF HasPrefix(v, "[") THEN Scalar(HasSuffix(v, "]"), v)
    ELSE Scalar(~Contains(v, ": ") /\ ~HasSuffix(v, ":"), v)

NoMatter == [title |-> "", url |-> "", path |-> "", description |-> "", created_at |-> "", id |-> ""]

YamlPut(m, key, sc) ==
    IF ~sc.ok THEN [ok |-> FALSE, matter |-> m]
    ELSE [ok |-> TRUE,
          matter |-> IF key \in DOMAIN NoMatter THEN [m EXCEPT ![key] = sc.value] ELSE m]

YamlLine(m, line, colon) ==
    IF TrimSpace(line) = "" THEN [ok |-> TRUE, matter |-> m]
    ELSE IF colon = 0 THEN [ok |-> FALSE, matter |-> m]
    ELSE YamlPut(m, SubSeq(line, 1, colon - 1),
                 YamlScalar(TrimSpace(SubSeq(line, colon + 1, Len(line)))))

\* yaml.Unmarshal of the lines i..j into the Frontmatter struct
RECURSIVE YamlLines(_, _, _, _)
YamlNext(lines, i, j, r) == IF ~r.ok THEN r ELSE YamlLines(lines, i + 1, j, r.matter)

YamlLines(lines, i, j, m) ==
    IF i > j THEN [ok |-> TRUE, matter |-> m]
    ELSE YamlNext(lines, i, j, YamlLine(m, lines[i], Index(lines[i], ":")))

ParseBlock(block) ==
    IF ~block.found THEN [ok |-> TRUE, matter |-> NoMatter]
    ELSE YamlLines(block.lines, 1, Len(block.lines), NoMatter)

ParseFrom(content, start) ==
    IF start = 0 THEN [ok |-> TRUE, matter |-> NoMatter]
    ELSE ParseBlock(Extract(content, start, <<>>))

\* frontmatter.Parse(content, &matter): ok is FALSE for a parse error
ParseFrontmatter(content) == ParseFrom(content, Detect(content, 1))

\* BuildCache: the ids of the readable .md files under the output directory
\* whose front matter parses and names an id. The map's values are built
\* from the front matter too and never read, so the ids stand for the map.
EntryOf(parsed) == IF parsed.ok THEN parsed.matter.id ELSE ""

\* An entry for a file of any name: what C23 excludes
CacheEntryAnyName(name, content) == EntryOf(ParseFrontmatter(content))

CacheEntry(name, content) ==
    IF ~HasSuffix(name, ".md") THEN "" ELSE EntryOf(ParseFrontmatter(content))

BuildCache(fs, unreadable) ==
    {CacheEntry(f, fs[f]) : f \in DOMAIN fs \ unreadable} \ {""}

(***************************************************************************)
(* internal/bookmarks and internal/firefox: the tree                       *)
(***************************************************************************)

Nil == [Type |-> "nil"]

Folder(id, title, children) ==
    [ID |-> id, Title |-> title, Type |-> "folder", URI |-> "", AddedUnix |-> 0,
     Deleted |-> FALSE, Children |-> children]

Leaf(id, title, uri, added, deleted) ==
    [ID |-> id, Title |-> title, Type |-> "bookmark", URI |-> uri, AddedUnix |-> added,
     Deleted |-> deleted, Children |-> <<>>]

\* Bookmark.All: the node itself, then each child's subtree in order, each
\* with its path; the root's path is its own title.
RECURSIVE collect(_, _)
RECURSIVE collectChildren(_, _, _)
childPath(path, child) == IF path = "" THEN child.Title ELSE path \o "/" \o child.Title

collectChildren(b, path, i) ==
    IF i > Len(b.Children) THEN <<>>
    ELSE collect(b.Children[i], childPath(path, b.Children[i])) \o collectChildren(b, path, i + 1)

\* A walk that yields a node after its children: what C20 excludes
collectPost(b, path) == collectChildren(b, path, 1) \o <<[path |-> path, b |-> b]>>

collect(b, path) == <<[path |-> path, b |-> b]>> \o collectChildren(b, path, 1)

All(folder) == collect(folder, folder.Title)

\* slices.IndexFunc(folder.Children, title equal): 0 for -1
RECURSIVE IndexOfTitle(_, _, _)
IndexOfTitle(children, title, i) ==
    IF i > Len(children) THEN 0
    ELSE IF children[i].Title = title THEN i
    ELSE IndexOfTitle(children, title, i + 1)

\* Bookmark.path(parts...)
RECURSIVE pathParts(_, _)
pathChild(folder, parts, idx) ==
    IF idx = 0 THEN Nil ELSE pathParts(folder.Children[idx], Tail(parts))

pathParts(folder, parts) ==
    IF Len(parts) = 0 THEN Nil
    ELSE IF folder.Title # parts[1] THEN Nil
    ELSE IF Len(parts) = 1 THEN folder
    ELSE pathChild(folder, parts, IndexOfTitle(folder.Children, parts[2], 1))

\* Bookmark.Path
Path(folder, path) == pathParts(folder, Split(path, "/"))

\* BookmarksRoot.Path: the switch knows menu, mobile and toolbar
RootPath(root, path) ==
    IF Split(path, "/")[1] = "menu" THEN Path(root.menu, path)
    ELSE IF Split(path, "/")[1] = "mobile" THEN Path(root.mobile, path)
    ELSE IF Split(path, "/")[1] = "toolbar" THEN Path(root.toolbar, path)
    ELSE Nil

\* main.go: the filter behind allBookmarks, applied to targetFolder.All()
Eligible(ignoredFolders, e) ==
    /\ \A i \in 1..Len(ignoredFolders) : ~HasPrefix(e.path, ignoredFolders[i])
    /\ e.b.Type = "bookmark"
    /\ ~e.b.Deleted

allBookmarks(target, ignoredFolders) == SelectSeq(All(target), LAMBDA e : Eligible(ignoredFolders, e))

\* Cache.CollectNewURLs over x.Values(allBookmarks)
URIsOf(seq) == [i \in 1..Len(seq) |-> seq[i].b.URI]

\* The URLs of all the bookmarks handed in, synced or not: what C13 excludes
CollectAllURLs(cache, seq) == URIsOf(seq)

CollectNewURLs(cache, seq) == URIsOf(SelectSeq(seq, LAMBDA e : e.b.ID \notin cache))

\* CreateYearIndexes: the years of the bookmarks handed in, and a year's file
Years(seq) == {FormatYear(seq[i].b.AddedUnix) : i \in 1..Len(seq)}

YearIndex(year) ==
    "---\ncssclasses: [\"line3\"]\n---\n" \o Fence \o "dataview\n"
    \o "TABLE path, url, dateformat(created_at, \"dd.MM\") as \"date\"\nFROM #bookmark\n"
    \o "WHERE dateformat(created_at, \"yyyy\") = \"" \o year \o "\"\nSORT created_at DESC\n"
    \o Fence \o "\n"

\* createBookmarkFile: the text of the file, with the screenshot line that a
\* configured screenshot service adds
MarkdownContent(bookmark, currentPath, content) ==
    FrontmatterString([CreatedAt |-> FormatDate(bookmark.AddedUnix), Path |-> currentPath,
                       URL |-> bookmark.URI, ID |-> bookmark.ID, Description |-> "",
                       Title |-> bookmark.Title, Tags |-> <<"bookmark">>])
    \o "\n![Screenshot](" \o GetScreenshotURL(bookmark.URI) \o ")\n" \o content \o "\n"

\* The directories os.MkdirAll(outputDir/path) makes sure of: the output
\* directory ("") and every prefix of path
RECURSIVE PrefixDirs(_, _)
PrefixDirs(parts, n) ==
    IF n = 0 THEN {""} ELSE {Join(SubSeq(parts, 1, n), "/")} \cup PrefixDirs(parts, n - 1)

MkdirAll(path) == PrefixDirs(Split(path, "/"), Len(Split(path, "/")))

(***************************************************************************)
(* The state.                                                              *)
(***************************************************************************)
VARIABLES
    cfg,        \* [cache, cleaner]: the cache handle and whether a cleaner is set
    cacheData,  \* the cache directory: key -> content; it outlives a process
    proc,       \* "running", or "crashed" after a panic
    calls,      \* resolver calls made so far
    last,       \* the last call: what was called, what the world answered, the outcome
    stored,     \* history: URL -> the content of the successful FetchContent that cached it
    llmStored,  \* history: prompt -> the response of the successful callLLM that cached it
    root,          \* the BookmarksRoot that GetBookmarks returns
    baseFolder,    \* the -folder flag
    ignoreFolders, \* the -ignore flag
    files,         \* the files under the output directory: relative path -> text
    dirs,          \* the directories that exist: "" is the output directory
    pc,            \* where main is: "idle", "walk", "index", "done", "exit1", "crashed"
    run,           \* the number of the run
    mdCache,       \* the Output Cache of the run: the ids it holds
    stack,         \* the active ProcessBookmarks calls: [folder, path, i], i the next child
    log,           \* history: what the run has done so far
    faults,        \* history: the failures the environment has injected
    prevClean      \* history: the previous run ended with no failure

resolverVars == <<cfg, cacheData, proc, calls, last, stored, llmStored>>

syncVars == <<root, baseFolder, ignoreFolders, files, dirs, pc, run, mdCache, stack, log,
              faults, prevClean>>

vars == <<cfg, cacheData, proc, calls, last, stored, llmStored,
          root, baseFolder, ignoreFolders, files, dirs, pc, run, mdCache, stack, log,
          faults, prevClean>>

(***************************************************************************)
(* The inputs of the resolver: URLs, and what the services answer.         *)
(***************************************************************************)

MaxCalls == 3

VideoURLs == {"https://youtu.be/abc123", "https://www.youtube.com/watch?v=xyz&t=1",
              "https://youtube.com/playlist?list=PL1"}

RepoURLs == {"https://github.com/octo/repo", "https://github.com/octo"}

PageURLs == {"https://example.com/a/"}

URLs == VideoURLs \cup RepoURLs \cup PageURLs

\* The readme served for each candidate file name: each names its file and
\* holds a relative link.
GhBodies == <<"1 [doc](docs/a.md)", "2 ![logo](/logo.png)", "3 [[x]]", "4 [abs](https://h/x)", "5">>

GhPatterns == {<<"ok", "ok", "ok", "ok", "ok">>, <<"404", "ok", "404", "ok", "neterr">>,
               <<"404", "404", "404", "404", "404">>, <<"neterr", "403", "readerr", "404", "403">>}

\* Two versions of the page the extraction service returns
MdBodies == {"# T\n\n[d](x.md)", "# T2 ![i](/p.png)\n"}

LlmTexts == {Fence \o "markdown\nclean [d](x)\n" \o Fence, "clean2"}

BaseEnv == [md |-> "ok", mdBody |-> "", gh |-> <<"ok", "ok", "ok", "ok", "ok">>, ghBody |-> GhBodies,
            llm |-> "ok", llmText |-> "", setOK |-> TRUE, llmSetOK |-> TRUE]

LlmEnvs == {[BaseEnv EXCEPT !.llm = o] : o \in LlmOutcomes \ {"ok"}}
           \cup {[BaseEnv EXCEPT !.llmText = t, !.llmSetOK = w] : t \in LlmTexts, w \in BOOLEAN}

PageEnvs == {[BaseEnv EXCEPT !.md = o] : o \in MdOutcomes \ {"ok"}}
            \cup {[e EXCEPT !.mdBody = b, !.setOK = w] : e \in LlmEnvs, b \in MdBodies, w \in BOOLEAN}

\* What the world can answer during FetchContent(u): only the services the
\* URL's host can reach vary.
Envs(u) ==
    IF u \in VideoURLs THEN {[BaseEnv EXCEPT !.setOK = w] : w \in BOOLEAN}
    ELSE IF u \in RepoURLs THEN {[BaseEnv EXCEPT !.gh = g, !.setOK = w] : g \in GhPatterns, w \in BOOLEAN}
    ELSE PageEnvs

\* The configurations: main.go's (a FileCache, or the nil *FileCache left by a
\* failed NewFileCache, with the cleaner always set) and the library's without
\* a cleaner or without a cache.
Configs == {[cache |-> "ok", cleaner |-> TRUE], [cache |-> "nilptr", cleaner |-> TRUE],
            [cache |-> "ok", cleaner |-> FALSE], [cache |-> "absent", cleaner |-> FALSE]}

NoCall == [op |-> "none"]

(***************************************************************************)
(* The resolver called as a service: FetchContent and CleanMarkdown calls  *)
(* in any order, within one process or across processes.                   *)
(***************************************************************************)

\* The history of cached results after a call
StoredAfter(u, r, env) ==
    IF r.ok /\ ~r.panic /\ u \notin DOMAIN stored /\ cfg.cache = "ok" /\ env.setOK
       /\ Len(r.ops) > 0 /\ r.ops[Len(r.ops)] = <<"Set", getURLKey(u)>>
    THEN [k \in DOMAIN stored \cup {u} |-> IF k = u THEN r.content ELSE stored[k]]
    ELSE stored

LlmStoredAfter(cs) ==
    IF Len(cs) > 0 /\ cs[1].ok /\ cs[1].wrote /\ cs[1].prompt \notin DOMAIN llmStored
    THEN [k \in DOMAIN llmStored \cup {cs[1].prompt} |->
            IF k = cs[1].prompt THEN cs[1].content ELSE llmStored[k]]
    ELSE llmStored

Prior(h, k) == IF k \in DOMAIN h THEN <<h[k]>> ELSE <<>>

\* The state after a resolver call op(arg) that came to r
Called(op, arg, env, r) ==
    /\ cacheData' = r.data
    /\ last' = [op |-> op, arg |-> arg, env |-> env,
                prior |-> IF op = "FetchContent" THEN Prior(stored, arg) ELSE <<>>,
                llmPrior |-> IF Len(r.llmCalls) > 0
                             THEN Prior(llmStored, r.llmCalls[1].prompt) ELSE <<>>,
                res |-> [x \in DOMAIN r \ {"data"} |-> r[x]]]
    /\ stored' = IF op = "FetchContent" THEN StoredAfter(arg, r, env) ELSE stored
    /\ llmStored' = LlmStoredAfter(r.llmCalls)
    /\ proc' = IF r.panic THEN "crashed" ELSE "running"

FromLlm(c) ==
    [Outcome(c.ok, c.content, c.err)
       EXCEPT !.panic = c.panic, !.ops = c.ops, !.llmReqs = c.llmReqs, !.llmCalls = <<LlmCall(c)>>]
    @@ [data |-> c.data]

FetchContentCall ==
    /\ proc = "running"
    /\ calls < MaxCalls
    /\ \E u \in URLs : \E env \in Envs(u) :
          Called("FetchContent", u, env, FetchContent(u, cfg, cacheData, env))
    /\ calls' = calls + 1
    /\ UNCHANGED cfg
    /\ UNCHANGED syncVars

CleanMarkdownCall ==
    /\ proc = "running"
    /\ calls < MaxCalls
    /\ cfg.cleaner
    /\ \E content \in MdBodies : \E env \in LlmEnvs :
          Called("CleanMarkdown", content, env,
                 FromLlm(CleanMarkdown(cfg.cache, cacheData, content, env.llm, env.llmText,
                                       env.llmSetOK)))
    /\ calls' = calls + 1
    /\ UNCHANGED cfg
    /\ UNCHANGED syncVars

\* A later run: a new process over the same cache directory
Restart ==
    /\ proc = "crashed"
    /\ proc' = "running"
    /\ UNCHANGED <<cfg, cacheData, calls, last, stored, llmStored>>
    /\ UNCHANGED syncVars

\* No sync is under way
NoSync ==
    /\ root = Nil
    /\ baseFolder = ""
    /\ ignoreFolders = ""
    /\ files = <<>>
    /\ dirs = {}
    /\ pc = "off"
    /\ run = 0
    /\ mdCache = {}
    /\ stack = <<>>
    /\ log = <<>>
    /\ faults = 0
    /\ prevClean = FALSE

InitResolver ==
    /\ cfg \in Configs
    /\ cacheData = <<>>
    /\ proc = "running"
    /\ calls = 0
    /\ last = NoCall
    /\ stored = <<>>
    /\ llmStored = <<>>
    /\ NoSync

NextResolver == FetchContentCall \/ CleanMarkdownCall \/ Restart

SpecResolver == InitResolver /\ [][NextResolver]_vars

(***************************************************************************)
(* GitHubFetcher.Fetch called once, with every outcome of the five         *)
(* requests.                                                               *)
(***************************************************************************)

GitHubFetchCall ==
    /\ last = NoCall
    /\ \E u \in RepoURLs : \E out \in [1..Len(readmeFiles) -> GhOutcomes] :
          last' = [op |-> "GitHubFetch", arg |-> u, env |-> [BaseEnv EXCEPT !.gh = out],
                   res |-> GitHubFetch(ParseURL(u), out, GhBodies)]
    /\ UNCHANGED <<cfg, cacheData, proc, calls, stored, llmStored>>
    /\ UNCHANGED syncVars

InitGitHub == InitResolver /\ cfg = [cache |-> "absent", cleaner |-> FALSE]

NextGitHub == GitHubFetchCall

SpecGitHub == InitGitHub /\ [][NextGitHub]_vars

(***************************************************************************)
(* cmd/main.go: a sync run, step by step, and the runs that follow it.     *)
(***************************************************************************)

MaxRuns == 2

MaxFailures == 1

\* The tree under "toolbar": the folder docs and, after it, a video
\* bookmark; two page bookmarks in docs, and docs/Archive/sub holding one
\* more. title3 is the title of the second page bookmark, deleted1 the
\* video's deleted flag.
Toolbar(title3, deleted1) ==
    Folder("tb", "toolbar", <<
        Folder("f1", "docs", <<
            Leaf("b2", "Go", "https://example.com/a/", 1612137600, FALSE),
            Leaf("b3", title3, "https://example.com/b", 1612137600, FALSE),
            Folder("f2", "Archive", <<
                Folder("f3", "sub", <<
                    Leaf("b4", "old", "https://example.com/a/", 1590000000, FALSE)>>)>>)>>),
        Leaf("b1", "Video", "https://youtu.be/abc123", 1550000000, deleted1)>>)

\* The tree under "menu": one page bookmark, a direct child of the root folder
Menu == Folder("mn", "menu", <<Leaf("b5", "Home", "https://example.com/a/", 1612137600, FALSE)>>)

RootOf(title3, deleted1) ==
    [menu |-> Menu, mobile |-> Folder("mb", "mobile", <<>>),
     toolbar |-> Toolbar(title3, deleted1), unfiled |-> Folder("un", "unfiled", <<>>)]

Roots == {RootOf("Rust", FALSE), RootOf("Go", FALSE), RootOf("It's \"x\"", FALSE),
          RootOf("Rust", TRUE)}

BaseFolders == {"toolbar", "menu", "unfiled"}

IgnoreFlags == {"", "Archive", "tmp, Archive"}

\* What the world answers while one bookmark is resolved and written
OkEnv == [BaseEnv EXCEPT !.mdBody = "# T\n\n[d](x.md)", !.llmText = "clean2"]

Outcomes(n) ==
    {[env |-> OkEnv, write |-> TRUE, fault |-> 0]}
    \cup (IF n < MaxFailures
          THEN {[env |-> [BaseEnv EXCEPT !.md = "neterr"], write |-> TRUE, fault |-> 1],
                [env |-> [OkEnv EXCEPT !.llm = "nochoices"], write |-> TRUE, fault |-> 1],
                [env |-> OkEnv, write |-> FALSE, fault |-> 1]}
          ELSE {})

MayFail(n) == IF n < MaxFailures THEN {TRUE, FALSE} ELSE {TRUE}

WriteFiles(fs, new) ==
    [f \in DOMAIN fs \cup DOMAIN new |-> IF f \in DOMAIN new THEN new[f] ELSE fs[f]]

Top == stack[Len(stack)]

Child == Top.folder.Children[Top.i]

Advance == [stack EXCEPT ![Len(stack)].i = @ + 1]

InLoop == pc = "walk" /\ Top.i <= Len(Top.folder.Children)

IsLive(b) == b.Type = "bookmark" /\ ~b.Deleted

\* main up to NewProcessor. fault names what fails, bad the files BuildCache
\* cannot read; target is the folder found for the -folder flag.
Exit(why) ==
    /\ pc' = "exit1"
    /\ log' = Append(log, <<"exit", why>>)
    /\ UNCHANGED <<cfg, cacheData, files, dirs, mdCache, stack>>

Started(cache, urls, bad, fault) ==
    /\ pc' = "walk"
    /\ mdCache' = cache
    /\ stack' = <<[folder |-> RootPath(root, baseFolder), path |-> "", i |-> 1]>>
    /\ log' = log \o (IF bad = {} THEN <<>> ELSE <<<<"unreadable", bad>>>>)
                  \o (IF Len(urls) = 0 THEN <<>>
                      ELSE <<<<IF fault = "submit" THEN "submitfail" ELSE "submit", urls>>>>)
    /\ UNCHANGED <<cfg, cacheData, files, dirs>>

\* The screenshots the gallery lists: one page has been captured before
Gallery == {"https://example.com/b"}

\* main from BuildCache on: cache is the Output Cache it built
Scanned(cache, bad, shots, fault) ==
    Started(cache,
            SelectSeq(CollectNewURLs(cache, allBookmarks(RootPath(root, baseFolder),
                                                         IgnoredFoldersList(ignoreFolders))),
                      LAMBDA u : u \notin shots),
            bad, fault)

\* main with the gallery asked before the base folder is looked up: what C14
\* excludes
StartWithLateLookup(fault, bad, shots) ==
    IF fault = "bookmarks" THEN Exit("failed to get Firefox bookmarks")
    ELSE IF fault = "gallery" THEN Exit("failed to get existing screenshots")
    ELSE IF RootPath(root, baseFolder) = Nil THEN Exit("folder not found")
    ELSE Scanned(BuildCache(files, bad), bad, shots, fault)

StartWith(fault, bad, shots) ==
    IF fault = "bookmarks" THEN Exit("failed to get Firefox bookmarks")
    ELSE IF RootPath(root, baseFolder) = Nil THEN Exit("folder not found")
    ELSE IF fault = "gallery" THEN Exit("failed to get existing screenshots")
    ELSE Scanned(BuildCache(files, bad), bad, shots, fault)

StartRun ==
    /\ pc = "idle"
    /\ \E fault \in {"none"} \cup (IF faults < MaxFailures
                                  THEN {"bookmarks", "gallery", "submit", "read"} ELSE {}) :
       \E bad \in (IF fault = "read" THEN {{f} : f \in DOMAIN files} ELSE {{}}) :
          /\ StartWith(fault, bad, Gallery)
          /\ faults' = IF fault = "none" THEN faults ELSE faults + 1
    /\ UNCHANGED <<root, baseFolder, ignoreFolders, run, prevClean>>
    /\ UNCHANGED <<proc, calls, last, stored, llmStored>>

\* The loop of ProcessBookmarks at a live bookmark the Output Cache holds
VisitCached ==
    /\ InLoop
    /\ IsLive(Child)
    /\ Child.ID \in mdCache
    /\ stack' = Advance
    /\ log' = Append(log, <<"cached", Child.ID>>)
    /\ UNCHANGED <<cfg, cacheData, files, dirs, pc, mdCache, faults>>
    /\ UNCHANGED <<root, baseFolder, ignoreFolders, run, prevClean>>
    /\ UNCHANGED <<proc, calls, last, stored, llmStored>>

\* createBookmarkFile and what the loop does with its result: r is what
\* FetchContent came to, o.write whether os.WriteFile can succeed.
Created(b, currentPath, o, r) ==
    /\ cacheData' = r.data
    /\ faults' = faults + o.fault
    /\ IF r.panic
       THEN /\ pc' = "crashed"
            /\ log' = log \o <<<<"fetch", b.ID>>, <<"panic", b.ID>>>>
            /\ UNCHANGED <<files, mdCache, stack>>
       ELSE IF ~r.ok \/ ~o.write \/ currentPath \notin dirs
       THEN /\ log' = log \o <<<<"fetch", b.ID>>, <<"fail", b.ID>>>>
            /\ stack' = Advance
            /\ UNCHANGED <<files, mdCache, pc>>
       ELSE /\ files' = WriteFiles(files,
                           [f \in {JoinPath(currentPath, sanitizeFilename(b.Title, b.URI))} |->
                               MarkdownContent(b, currentPath, r.content)])
            /\ mdCache' = mdCache \cup {b.ID}
            /\ log' = log \o <<<<"fetch", b.ID>>,
                               <<"write", b.ID, JoinPath(currentPath, sanitizeFilename(b.Title, b.URI))>>,
                               <<"insert", b.ID>>>>
            /\ stack' = Advance
            /\ pc' = pc

\* The loop without the look into the Output Cache: what C2 excludes
CreateBookmarkUnchecked ==
    /\ InLoop
    /\ IsLive(Child)
    /\ \E o \in Outcomes(faults) :
          Created(Child, Top.path, o, FetchContent(Child.URI, cfg, cacheData, o.env))
    /\ UNCHANGED <<cfg, dirs>>
    /\ UNCHANGED <<root, baseFolder, ignoreFolders, run, prevClean>>
    /\ UNCHANGED <<proc, calls, last, stored, llmStored>>

\* The loop at a live bookmark the Output Cache does not hold
CreateBookmark ==
    /\ InLoop
    /\ IsLive(Child)
    /\ Child.ID \notin mdCache
    /\ \E o \in Outcomes(faults) :
          Created(Child, Top.path, o, FetchContent(Child.URI, cfg, cacheData, o.env))
    /\ UNCHANGED <<cfg, dirs>>
    /\ UNCHANGED <<root, baseFolder, ignoreFolders, run, prevClean>>
    /\ UNCHANGED <<proc, calls, last, stored, llmStored>>

\* The loop at a folder on the ignored list
SkipIgnoredFolder ==
    /\ InLoop
    /\ ~IsLive(Child)
    /\ Child.Type = "folder"
    /\ shouldIgnoreFolder(IgnoredFoldersList(ignoreFolders), Child.Title)
    /\ stack' = Advance
    /\ log' = Append(log, <<"ignored", JoinPath(Top.path, Child.Title)>>)
    /\ UNCHANGED <<cfg, cacheData, files, dirs, pc, mdCache, faults>>
    /\ UNCHANGED <<root, baseFolder, ignoreFolders, run, prevClean>>
    /\ UNCHANGED <<proc, calls, last, stored, llmStored>>

\* A loop that takes a failed MkdirAll as it takes a failed bookmark, and goes
\* on with the next sibling: what C19 excludes
EnterFolderIsolated ==
    /\ InLoop
    /\ ~IsLive(Child)
    /\ Child.Type = "folder"
    /\ ~shouldIgnoreFolder(IgnoredFoldersList(ignoreFolders), Child.Title)
    /\ \E ok \in MayFail(faults) :
          IF ok
          THEN /\ dirs' = dirs \cup MkdirAll(JoinPath(Top.path, Child.Title))
               /\ stack' = Append(Advance, [folder |-> Child, i |-> 1,
                                            path |-> JoinPath(Top.path, Child.Title)])
               /\ log' = Append(log, <<"mkdir", JoinPath(Top.path, Child.Title)>>)
               /\ UNCHANGED <<pc, faults>>
          ELSE /\ stack' = Advance
               /\ faults' = faults + 1
               /\ log' = Append(log, <<"mkdirfail", JoinPath(Top.path, Child.Title)>>)
               /\ UNCHANGED <<dirs, pc>>
    /\ UNCHANGED <<cfg, cacheData, files, mdCache>>
    /\ UNCHANGED <<root, baseFolder, ignoreFolders, run, prevClean>>
    /\ UNCHANGED <<proc, calls, last, stored, llmStored>>

\* The loop at any other folder: the recursive call, which starts with
\* MkdirAll; a failure there is returned through every level to main.
EnterFolder ==
    /\ InLoop
    /\ ~IsLive(Child)
    /\ Child.Type = "folder"
    /\ ~shouldIgnoreFolder(IgnoredFoldersList(ignoreFolders), Child.Title)
    /\ \E ok \in MayFail(faults) :
          IF ok
          THEN /\ dirs' = dirs \cup MkdirAll(JoinPath(Top.path, Child.Title))
               /\ stack' = Append(Advance, [folder |-> Child, i |-> 1,
                                            path |-> JoinPath(Top.path, Child.Title)])
               /\ log' = Append(log, <<"mkdir", JoinPath(Top.path, Child.Title)>>)
               /\ UNCHANGED <<pc, faults>>
          ELSE /\ pc' = "exit1"
               /\ faults' = faults + 1
               /\ log' = log \o <<<<"mkdirfail", JoinPath(Top.path, Child.Title)>>,
                                  <<"exit", "failed to create directory">>>>
               /\ UNCHANGED <<dirs, stack>>
    /\ UNCHANGED <<cfg, cacheData, files, mdCache>>
    /\ UNCHANGED <<root, baseFolder, ignoreFolders, run, prevClean>>
    /\ UNCHANGED <<proc, calls, last, stored, llmStored>>

\* The loop at a deleted bookmark or a node of another type
VisitOther ==
    /\ InLoop
    /\ ~IsLive(Child)
    /\ Child.Type # "folder"
    /\ stack' = Advance
    /\ UNCHANGED <<cfg, cacheData, files, dirs, pc, mdCache, log, faults>>
    /\ UNCHANGED <<root, baseFolder, ignoreFolders, run, prevClean>>
    /\ UNCHANGED <<proc, calls, last, stored, llmStored>>

\* The end of the loop: ProcessBookmarks returns nil
ReturnFolder ==
    /\ pc = "walk"
    /\ Top.i > Len(Top.folder.Children)
    /\ stack' = SubSeq(stack, 1, Len(stack) - 1)
    /\ pc' = IF Len(stack) = 1 THEN "index" ELSE "walk"
    /\ UNCHANGED <<cfg, cacheData, files, dirs, mdCache, log, faults>>
    /\ UNCHANGED <<root, baseFolder, ignoreFolders, run, prevClean>>
    /\ UNCHANGED <<proc, calls, last, stored, llmStored>>

\* CreateYearIndexes over x.Values(allBookmarks): the files are written in
\* the map's order, so a failing write leaves any part of them written.
Indexed(years, written) ==
    /\ files' = WriteFiles(files, [f \in {y \o ".md" : y \in written} |->
                                    YearIndex(SubSeq(f, 1, Len(f) - 3))])
    /\ pc' = IF written = years THEN "done" ELSE "exit1"
    /\ log' = log \o <<<<"index", written>>>>
                  \o (IF written = years THEN <<>>
                      ELSE <<<<"exit", "failed to write year index">>>>)

IndexWith(years, ok) ==
    IF years = {} \/ (ok /\ "" \in dirs) THEN Indexed(years, years) /\ faults' = faults
    ELSE IF "" \notin dirs THEN Indexed(years, {}) /\ faults' = faults
    ELSE /\ \E written \in SUBSET years \ {years} : Indexed(years, written)
         /\ faults' = faults + 1

\* An incremental index pass, over the bookmarks the run has inserted only:
\* what C15 excludes
CreateYearIndexesOfNew ==
    /\ pc = "index"
    /\ \E ok \in MayFail(faults) :
          IndexWith(Years(SelectSeq(allBookmarks(RootPath(root, baseFolder),
                                                 IgnoredFoldersList(ignoreFolders)),
                                    LAMBDA e : \E i \in 1..Len(log) : log[i] = <<"insert", e.b.ID>>)),
                    ok)
    /\ UNCHANGED <<cfg, cacheData, dirs, mdCache, stack>>
    /\ UNCHANGED <<root, baseFolder, ignoreFolders, run, prevClean>>
    /\ UNCHANGED <<proc, calls, last, stored, llmStored>>

CreateYearIndexes ==
    /\ pc = "index"
    /\ \E ok \in MayFail(faults) :
          IndexWith(Years(allBookmarks(RootPath(root, baseFolder),
                                       IgnoredFoldersList(ignoreFolders))), ok)
    /\ UNCHANGED <<cfg, cacheData, dirs, mdCache, stack>>
    /\ UNCHANGED <<root, baseFolder, ignoreFolders, run, prevClean>>
    /\ UNCHANGED <<proc, calls, last, stored, llmStored>>

NoFailure(l) == \A i \in 1..Len(l) : l[i][1] \notin {"fail", "panic", "exit", "unreadable"}

\* The program is started again: same tree, same flags, same directories
NextRun ==
    /\ pc \in {"done", "exit1", "crashed"}
    /\ run < MaxRuns
    /\ run' = run + 1
    /\ pc' = "idle"
    /\ prevClean' = (pc = "done" /\ NoFailure(log))
    /\ mdCache' = {}
    /\ stack' = <<>>
    /\ log' = <<>>
    /\ UNCHANGED <<cfg, cacheData, files, dirs, faults>>
    /\ UNCHANGED <<root, baseFolder, ignoreFolders>>
    /\ UNCHANGED <<proc, calls, last, stored, llmStored>>

Init ==
    /\ cfg \in {[cache |-> "ok", cleaner |-> TRUE], [cache |-> "nilptr", cleaner |-> TRUE]}
    /\ cacheData = <<>>
    /\ proc = "running"
    /\ calls = 0
    /\ last = NoCall
    /\ stored = <<>>
    /\ llmStored = <<>>
    /\ root \in Roots
    /\ baseFolder \in BaseFolders
    /\ ignoreFolders \in IgnoreFlags
    /\ files = <<>>
    /\ dirs \in {{}, {""}}
    /\ pc = "idle"
    /\ run = 1
    /\ mdCache = {}
    /\ stack = <<>>
    /\ log = <<>>
    /\ faults = 0
    /\ prevClean = FALSE

Next ==
    \/ StartRun
    \/ VisitCached
    \/ CreateBookmark
    \/ SkipIgnoredFolder
    \/ EnterFolder
    \/ VisitOther
    \/ ReturnFolder
    \/ CreateYearIndexes
    \/ NextRun

Spec == Init /\ [][Next]_vars

(***************************************************************************)
(* The properties of a sync run.                                           *)
(***************************************************************************)

\* The names the -ignore flag lists
IgnoreNames ==
    IF ignoreFolders = "" THEN {}
    ELSE IF ignoreFolders = "Archive" THEN {"Archive"}
    ELSE {"tmp", "Archive"}

Target == RootPath(root, baseFolder)

Entries == IF Target = Nil THEN {} ELSE {All(Target)[i] : i \in 1..Len(All(Target))}

\* The folders on the way from the base folder down to an entry, the entry
\* itself counted when it is a folder
FoldersAbove(e) ==
    {Split(e.path, "/")[k] :
        k \in 2..(IF e.b.Type = "folder" THEN Len(Split(e.path, "/"))
                  ELSE Len(Split(e.path, "/")) - 1)}

UnderIgnored(e) == FoldersAbove(e) \cap IgnoreNames # {}

\* The path of an entry below the output directory
OutPath(e) == Join(Tail(Split(e.path, "/")), "/")

Events(kinds) == {i \in 1..Len(log) : log[i][1] \in kinds}

\* C1: after a run that resolved and wrote every eligible bookmark without
\* error, a second run over the unchanged tree and directories writes no
\* bookmark file and makes no Content Resolver call.
C1_Idempotence ==
    (run >= 2 /\ prevClean /\ Events({"unreadable"}) = {}) => Events({"fetch", "write"}) = {}

\* C2: for a bookmark whose id the Output Cache holds, from the scan or from
\* earlier in the run, FetchContent is not invoked and no file is written.
C2_SkipOnSync ==
    [][(InLoop /\ IsLive(Child) /\ Child.ID \in mdCache) =>
          /\ files' = files
          /\ cacheData' = cacheData
          /\ \A i \in (Len(log) + 1)..Len(log') : log'[i][1] \notin {"fetch", "write", "insert"}]_vars

\* The second run passes a bookmark that the first run wrote
C2_Witness ==
    /\ run = 2
    /\ prevClean
    /\ \E i \in 1..Len(log) : log[i] = <<"cached", "b2">>
    /\ Events({"fetch"}) = {}
    /\ pc = "done"

\* C3: when resolving or writing fails for a bookmark its id is not inserted
\* into the Output Cache, the walk is not ended by it and every later
\* sibling and folder is still processed; an id is inserted only right
\* after that bookmark's file was written.
C3_FailureIsolation ==
    /\ \A i \in Events({"fail", "panic"}) : log[i][2] \notin mdCache
    /\ pc # "crashed"
    /\ \A i \in Events({"insert"}) : i > 1 /\ log[i - 1][1] = "write" /\ log[i - 1][2] = log[i][2]
    /\ pc \in {"index", "done"} =>
          \A e \in Entries : (IsLive(e.b) /\ ~UnderIgnored(e)) =>
              \E i \in Events({"cached", "fetch"}) : log[i][2] = e.b.ID

\* C4: for a folder whose title is on the ignore list, at any depth, no
\* output directory is made, no bookmark in its subtree is resolved or
\* written, and none of their ids enters the Output Cache.
C4_IgnoredSubtreeUntouched ==
    \A e \in Entries : UnderIgnored(e) =>
        /\ e.b.Type = "folder" => OutPath(e) \notin dirs
        /\ e.b.ID \notin mdCache
        /\ \A i \in Events({"fetch", "write", "insert", "cached"}) : log[i][2] # e.b.ID
        /\ \A f \in DOMAIN files : ~HasPrefix(f, "docs/Archive/")

\* Archive is listed after a blank and is passed over while docs is written
C4_Witness ==
    /\ ignoreFolders = "tmp, Archive"
    /\ pc = "done"
    /\ \E i \in 1..Len(log) : log[i] = <<"ignored", "docs/Archive">>
    /\ \E i \in 1..Len(log) : log[i][1] = "write" /\ log[i][2] = "b2"
    /\ "docs" \in dirs

\* C5: no <year>.md is written for a year whose only bookmarks are deleted
\* or lie under an ignored folder.
C5_YearIndexExcludesIgnored ==
    \A y \in {"2019", "2020", "2021"} : (y \o ".md") \in DOMAIN files =>
        \E e \in Entries : IsLive(e.b) /\ ~UnderIgnored(e) /\ FormatYear(e.b.AddedUnix) = y

(***************************************************************************)
(* The Content Resolver's properties.                                      *)
(***************************************************************************)

VideoHosts == {"youtube.com", "www.youtube.com", "youtu.be"}

IsFetchOf(hosts) ==
    /\ last.op = "FetchContent"
    /\ ~ParseFails(last.arg)
    /\ ParseURL(last.arg).Host \in hosts

\* C6: resolving a URL on a video host (youtube.com, www.youtube.com,
\* youtu.be) makes no network call and no Content Cache read or write.
C6_VideoNoNetworkNoCache ==
    IsFetchOf(VideoHosts) =>
        /\ last.res.reqs = <<>>
        /\ last.res.llmReqs = 0
        /\ last.res.ops = <<>>

\* C7: the readme returned for a repository URL has its relative links and
\* images rewritten to absolute URLs against the repository's blob base.
C7_ReadmeLinksAgainstBlobBase ==
    (IsFetchOf({"github.com"}) /\ last.arg = "https://github.com/octo/repo" /\ last.res.ok) =>
        \E i \in 1..Len(GhBodies) :
            last.res.content = fixMarkdownLinks(GhBodies[i], "https://github.com/octo/repo/blob/HEAD")

\* C8: for a repository URL with two path segments the candidates are
\* requested in the order README.md, README.MD, README.org, Readme.md,
\* readme.md; the content of the first one that succeeds is returned and no
\* later one is requested; an error is returned iff every candidate fails.
C8_ReadmeCandidateOrder ==
    (last.op = "GitHubFetch" /\ last.arg = "https://github.com/octo/repo") =>
        LET names == <<"README.md", "README.MD", "README.org", "Readme.md", "readme.md">>
            want == [i \in 1..5 |-> "https://raw.githubusercontent.com/octo/repo/HEAD/" \o names[i]]
            oks == {i \in 1..5 : last.env.gh[i] = "ok"}
        IN  /\ last.res.ok <=> oks # {}
            /\ oks = {} => last.res.reqs = want /\ last.res.err # ""
            /\ \A i \in oks : (\A j \in oks : i <= j) =>
                  /\ last.res.content = GhBodies[i]
                  /\ last.res.reqs = SubSeq(want, 1, i)

\* The second candidate answers after the first gave 404
C8_Witness ==
    /\ last.op = "GitHubFetch"
    /\ last.arg = "https://github.com/octo/repo"
    /\ last.env.gh[1] = "404"
    /\ last.env.gh[2] = "ok"
    /\ last.env.gh[3] = "ok"
    /\ last.res.ok
    /\ Len(last.res.reqs) = 2

\* C9: for a generic URL, whenever the extraction service returned success
\* the resolver returns content without error whatever the cleanup came to,
\* and after a cleanup failure the content is the link-rewritten extraction.
C9_CleanupNeverPropagated ==
    (IsFetchOf({"example.com"}) /\ last.res.reqs # <<>> /\ last.env.md = "ok") =>
        /\ ~last.res.panic
        /\ last.res.ok
        /\ (cfg.cleaner /\ last.env.llm # "ok" /\ last.llmPrior = <<>>) =>
              last.res.content =
                  RemoveEmptyLines(fixMarkdownLinks(last.env.mdBody, "https://example.com/a/"))

\* C10: once FetchContent(u) succeeded and its cache write succeeded, every
\* later FetchContent(u) returns the same string with no network call; once
\* callLLM succeeded for a prompt and was cached, a later call with that
\* prompt returns the same string with no model request.
C10_CacheDeterminism ==
    /\ (last.op = "FetchContent" /\ last.prior # <<>>) =>
          /\ last.res.ok
          /\ last.res.content = last.prior[1]
          /\ last.res.reqs = <<>>
          /\ last.res.llmReqs = 0
    /\ (last.op \in {"FetchContent", "CleanMarkdown"} /\ last.llmPrior # <<>>) =>
          /\ last.res.llmCalls[1].ok
          /\ last.res.llmCalls[1].content = last.llmPrior[1]
          /\ last.res.llmReqs = 0

\* A cached page is returned while the extraction service is down
C10_Witness ==
    /\ last.op = "FetchContent"
    /\ last.arg \in PageURLs
    /\ last.prior # <<>>
    /\ last.env.md = "neterr"
    /\ last.res.ok
    /\ llmStored # <<>>

(***************************************************************************)
(* Failures of the Content Cache and of the screenshot service.            *)
(***************************************************************************)

\* C11: no Content Cache failure fails a resolution or ends the process: a
\* resolver whose cache could not be created (main keeps the handle that
\* NewFileCache returned with its error) resolves as one without a cache,
\* with no panic and no cache operation, and a resolution whose cache write
\* fails still returns the content it computed.
C11_CacheFailureNeverFatal ==
    (last.op = "FetchContent" /\ ~ParseFails(last.arg)) =>
        /\ cfg.cache = "nilptr" =>
              /\ ~last.res.panic
              /\ last.res.ops = <<>>
        /\ (cfg.cache = "ok" /\ ~last.env.setOK /\ Len(last.res.ops) > 0
            /\ last.res.ops[Len(last.res.ops)] = <<"Set", getURLKey(last.arg)>>) =>
              /\ last.res.ok
              /\ ~last.res.panic
              /\ last.res.content # ""
              /\ getURLKey(last.arg) \notin DOMAIN cacheData

\* C12: a failure of the screenshot service never ends a run: the run does
\* not exit when the gallery query fails, and after a failed batch submit it
\* goes on to the walk and the year indexes.
C12_ScreenshotFailureNotFatal ==
    /\ \A i \in Events({"exit"}) : log[i][2] # "failed to get existing screenshots"
    /\ (Events({"submitfail"}) # {} /\ pc = "exit1") =>
          \E i \in Events({"exit"}) :
              log[i][2] \in {"failed to create directory", "failed to write year index"}

(***************************************************************************)
(* The screenshot batch.                                                   *)
(***************************************************************************)

\* The bookmarks main hands to CollectNewURLs, in the order of All()
Candidates == allBookmarks(Target, IgnoredFoldersList(ignoreFolders))

\* The URLs of the candidates whose id the cache lacks and whose URL has no
\* capture in the gallery, in input order
Unsynced(cache) ==
    URIsOf(SelectSeq(Candidates, LAMBDA e : e.b.ID \notin cache /\ e.b.URI \notin Gallery))

Submits(l) == {i \in 1..Len(l) : l[i][1] \in {"submit", "submitfail"}}

\* The batch of the run's submit request, empty when none was made
Batch(l) == IF Submits(l) = {} THEN <<>> ELSE l[CHOOSE i \in Submits(l) : TRUE][2]

\* The start of a run that gets as far as the walk
Starts == pc = "idle" /\ pc' = "walk"

C14_BaseFolderNotFoundAborts ==
    [][Target = Nil =>
          /\ files' = files
          /\ dirs' = dirs
          /\ cacheData' = cacheData
          /\ pc' \in {"idle", "exit1"}
          /\ \A i \in 1..Len(log') :
                log'[i] \in {<<"exit", "folder not found">>,
                             <<"exit", "failed to get Firefox bookmarks">>}]_vars

\* A second run over a base folder that is not found has ended as the first
C14_Witness ==
    /\ Target = Nil
    /\ run = 2
    /\ pc = "exit1"
    /\ log = <<<<"exit", "folder not found">>>>

(***************************************************************************)
(* The year indexes.                                                       *)
(***************************************************************************)

\* The years of the live bookmarks outside ignored folders, and of all live
\* bookmarks
EligibleYears == {FormatYear(e.b.AddedUnix) : e \in {x \in Entries : IsLive(x.b) /\ ~UnderIgnored(x)}}

LiveYears == {FormatYear(e.b.AddedUnix) : e \in {x \in Entries : IsLive(x.b)}}

\* The year files the index pass of this step has written
IndexedNow(l) == UNION {l[i][2] : i \in {j \in 1..Len(l) : l[j][1] = "index"}}

Titles == {"Go", "", "It's", "say \"hi\"", "It's \"x\"", "a: b", "# one", "c --- d", "x [y]"}

BookmarkURLs == {"https://example.com/a/", "https://youtu.be/abc123", "https://e.com/p?q=1#f"}

BookmarkIDs == {"b2", "Zq_-9xK3mW0a"}

Bodies == {"text", "---\nid: other\n---\n"}

\* createBookmarkFile's text for the bookmark, written under docs, and what
\* frontmatter.Parse and BuildCache make of it
WriteAndScan ==
    /\ last = NoCall
    /\ \E t \in Titles, u \in BookmarkURLs, id \in BookmarkIDs, body \in Bodies :
          last' = [op |-> "WriteAndScan",
                   arg |-> Leaf(id, t, u, 1612137600, FALSE),
                   body |-> body,
                   parsed |-> ParseFrontmatter(MarkdownContent(Leaf(id, t, u, 1612137600, FALSE),
                                                               "docs", body)),
                   cache |-> BuildCache([f \in {"docs/x.md"} |->
                                            MarkdownContent(Leaf(id, t, u, 1612137600, FALSE),
                                                            "docs", body)], {})]
    /\ UNCHANGED <<cfg, cacheData, proc, calls, stored, llmStored>>
    /\ UNCHANGED syncVars

\* The files BuildCache may find: bookmark files of two ids, one whose
\* metadata block does not parse, a year index, a text without a block
FileTexts == {MarkdownContent(Leaf("b2", "Go", "https://example.com/a/", 1612137600, FALSE), "docs", "text"),
              MarkdownContent(Leaf("b3", "say \"hi\"", "https://example.com/b", 1612137600, FALSE), "", "text"),
              MarkdownContent(Leaf("b4", "It's \"x\"", "https://example.com/b", 1612137600, FALSE), "", "text"),
              YearIndex("2021"), "plain text"}

FileNames == {"docs/example.com - Go.md", "2021.md", "notes.txt"}

Directories == UNION {[names -> FileTexts] : names \in SUBSET FileNames}

\* BuildCache over a directory, bad the files os.ReadFile cannot read
ScanCall ==
    /\ last = NoCall
    /\ \E fs \in Directories : \E bad \in {{}} \cup {{f} : f \in DOMAIN fs} :
          last' = [op |-> "BuildCache", arg |-> fs, bad |-> bad, res |-> BuildCache(fs, bad)]
    /\ UNCHANGED <<cfg, cacheData, proc, calls, stored, llmStored>>
    /\ UNCHANGED syncVars

NextFrontmatter == WriteAndScan \/ ScanCall

SpecFrontmatter == InitGitHub /\ [][NextFrontmatter]_vars

\* C16: the metadata block of the file written for a bookmark, parsed again
\* by BuildCache, gives the id, url and title it was made from, and the id
\* is in the Output Cache built from the file.
C16_FrontmatterRoundTrip ==
    last.op = "WriteAndScan" =>
        /\ last.parsed.ok
        /\ last.parsed.matter.id = last.arg.ID
        /\ last.parsed.matter.url = last.arg.URI
        /\ last.parsed.matter.title = last.arg.Title
        /\ last.arg.ID \in last.cache

(***************************************************************************)
(* The Content Cache over sequences of resolver and cleanup calls.         *)
(***************************************************************************)

\* The keys the call set, each with the place of its Set among the call's
\* cache operations
SetsOf(ops) == {i \in 1..Len(ops) : ops[i][1] = "Set"}

\* C17: every Set of a call is for a key that the cache did not hold and
\* that the same call has looked up before, and no call changes or removes
\* the value a key holds.
C17_WriteOnce ==
    [][/\ \A k \in DOMAIN cacheData : k \in DOMAIN cacheData' /\ cacheData'[k] = cacheData[k]
       /\ calls' # calls =>
             \A i \in SetsOf(last'.res.ops) :
                /\ last'.res.ops[i][2] \notin DOMAIN cacheData
                /\ \E j \in 1..(i - 1) : last'.res.ops[j] = <<"Get", last'.res.ops[i][2]>>]_vars

\* A page and its cleanup are in the cache, and a later call for the page,
\* with the services answering otherwise, has only read it
C17_Witness ==
    /\ calls >= 2
    /\ last.op = "FetchContent"
    /\ last.arg \in PageURLs
    /\ last.res.ops = <<<<"Get", getURLKey(last.arg)>>>>
    /\ Cardinality(DOMAIN cacheData) >= 2
    /\ last.env.mdBody # ""
    /\ last.res.content # RemoveEmptyLines(StripFence(last.env.llmText))

\* What a page is without cleanup: the extraction's body with its links
\* rewritten and its empty lines dropped
Uncleaned == {RemoveEmptyLines(fixMarkdownLinks(b, "https://example.com/a/")) : b \in MdBodies}

\* C18: the entry a resolution stores under the URL's key is the fetch
\* result of the extraction service, the same whatever the cleanup came to;
\* and when an earlier resolution stored the uncleaned page because its
\* cleanup failed, a later resolution with a working cleanup does not
\* return the uncleaned page.
C18_FetchAndCleanupCachedApart ==
    (last.op = "FetchContent" /\ last.arg \in PageURLs /\ cfg.cleaner /\ last.res.ok) =>
        /\ (last.prior = <<>> /\ getURLKey(last.arg) \in DOMAIN cacheData) =>
              cacheData[getURLKey(last.arg)]
                  \in {last.env.mdBody, fixMarkdownLinks(last.env.mdBody, "https://example.com/a/"),
                       RemoveEmptyLines(fixMarkdownLinks(last.env.mdBody, "https://example.com/a/"))}
        /\ (last.prior # <<>> /\ last.prior[1] \in Uncleaned /\ last.env.md = "ok"
            /\ last.env.llm = "ok") =>
              last.res.content \notin Uncleaned

(***************************************************************************)
(* A failure to make a folder's output directory.                          *)
(***************************************************************************)

\* The place of a node in the order of All()
PlaceOf(id) == CHOOSE j \in 1..Len(All(Target)) : All(Target)[j].b.ID = id

\* The folder whose output directory is path
FolderAt(path) ==
    CHOOSE j \in 1..Len(All(Target)) :
        All(Target)[j].b.Type = "folder" /\ OutPath(All(Target)[j]) = path

\* C19: once MkdirAll has failed for a folder the run has ended with exit
\* status 1 and that failure is the last thing it did: nothing of the
\* folder's subtree and nothing that follows the folder in the walk (its
\* later siblings and those of its ancestors) was looked up, resolved or
\* written, no directory was made for them, and no year index was written.
C19_DirectoryFailureAborts ==
    \A i \in Events({"mkdirfail"}) :
        /\ pc = "exit1"
        /\ i = Len(log) - 1
        /\ log[Len(log)][1] = "exit"
        /\ Events({"index"}) = {}
        /\ \A e \in Entries : PlaceOf(e.b.ID) >= FolderAt(log[i][2]) =>
              /\ \A k \in Events({"cached", "fetch", "write", "insert", "fail", "panic"}) :
                    log[k][2] # e.b.ID
              /\ \A k \in Events({"mkdir", "ignored"}) : log[k][2] # OutPath(e)

\* MkdirAll fails for docs/Archive after the two pages of docs were written;
\* the video that follows docs is left alone
C19_Witness ==
    /\ pc = "exit1"
    /\ Events({"mkdirfail"}) # {}
    /\ log[Len(log) - 1] = <<"mkdirfail", "docs/Archive">>
    /\ \E k \in Events({"write"}) : log[k][2] = "b2"
    /\ "b1" \notin mdCache
    /\ ~root.toolbar.Children[2].Deleted

(***************************************************************************)
(* Bookmark.All over trees of every shape up to a size.                    *)
(***************************************************************************)

MaxChildren == 2

\* The sequences over S of length up to n
RECURSIVE SeqsUpTo(_, _)
SeqsUpTo(S, n) ==
    IF n = 0 THEN {<<>>}
    ELSE SeqsUpTo(S, n - 1) \cup {Append(s, x) : s \in SeqsUpTo(S, n - 1), x \in S}

SmallLeaves == {Leaf("a", "A", "https://example.com/a/", 1612137600, FALSE),
                Leaf("b", "B", "https://example.com/b", 1590000000, TRUE)}

SmallTrees == SmallLeaves \cup {Folder("f", "F", cs) : cs \in SeqsUpTo(SmallLeaves, MaxChildren)}

Trees == SmallTrees \cup {Folder("r", "R", cs) : cs \in SeqsUpTo(SmallTrees, MaxChildren)}
         \cup {Folder("r", "", cs) : cs \in SeqsUpTo(SmallLeaves, MaxChildren)}

AllCall ==
    /\ last = NoCall
    /\ \E t \in Trees : last' = [op |-> "All", arg |-> t, res |-> All(t)]
    /\ UNCHANGED <<cfg, cacheData, proc, calls, stored, llmStored>>
    /\ UNCHANGED syncVars

\* Bookmark.All under a for-range loop whose body breaks after `stop` pairs.
\* st holds the pairs the body has seen, the calls of yield, whether the body
\* has broken off (yield has returned false), and whether the runtime has
\* panicked. All does not look at what yield returns; a yield called after
\* the body has broken off is a run-time panic, which unwinds the walk.
Yielded(st, pair, stop) ==
    IF st.broke THEN [st EXCEPT !.yields = @ + 1, !.panic = TRUE]
    ELSE [st EXCEPT !.seen = Append(@, pair), !.yields = @ + 1,
                    !.broke = (Len(st.seen) + 1 = stop)]

RECURSIVE collectFrom(_, _, _, _)
RECURSIVE collectChildrenFrom(_, _, _, _, _)
collectChildrenFrom(b, path, i, st, stop) ==
    IF st.panic \/ i > Len(b.Children) THEN st
    ELSE collectChildrenFrom(b, path, i + 1,
             collectFrom(b.Children[i], childPath(path, b.Children[i]), st, stop), stop)

collectFrom(b, path, st, stop) ==
    collectChildrenFrom(b, path, 1, Yielded(st, [path |-> path, b |-> b], stop), stop)

AllUntil(folder, stop) ==
    collectFrom(folder, folder.Title,
                [seen |-> <<>>, yields |-> 0, broke |-> FALSE, panic |-> FALSE], stop)

AllBreakCall ==
    /\ last = NoCall
    /\ \E t \in Trees : \E stop \in 1..Len(All(t)) :
          last' = [op |-> "AllBreak", arg |-> t, stop |-> stop, res |-> AllUntil(t, stop)]
    /\ UNCHANGED <<cfg, cacheData, proc, calls, stored, llmStored>>
    /\ UNCHANGED syncVars

NextAll == AllCall \/ AllBreakCall

SpecAll == InitGitHub /\ [][NextAll]_vars

\* The nodes of a tree by address: the child indices on the way from the root
RECURSIVE Addrs(_)
Addrs(t) ==
    {<<>>} \cup UNION {{<<i>> \o a : a \in Addrs(t.Children[i])} : i \in 1..Len(t.Children)}

RECURSIVE NodeAt(_, _)
NodeAt(t, a) == IF a = <<>> THEN t ELSE NodeAt(t.Children[a[1]], Tail(a))

\* a comes before b in pre-order: a is a proper prefix of b, or at the first
\* place where they differ a takes the earlier child
Before(a, b) ==
    \E k \in 0..Len(a) :
        /\ k <= Len(b)
        /\ SubSeq(a, 1, k) = SubSeq(b, 1, k)
        /\ IF k = Len(a) THEN k < Len(b) ELSE k < Len(b) /\ a[k + 1] < b[k + 1]

PreOrderPlace(t, a) == 1 + Cardinality({b \in Addrs(t) : Before(b, a)})

\* C20: All yields as many pairs as the subtree has nodes, the root among
\* them, and the node at every address at its place in pre-order: after its
\* ancestors, before its descendants, after the subtrees of its earlier
\* siblings.
C20_AllIsPreOrder ==
    last.op = "All" =>
        /\ Len(last.res) = Cardinality(Addrs(last.arg))
        /\ last.res[1].b = last.arg
        /\ \A a \in Addrs(last.arg) : last.res[PreOrderPlace(last.arg, a)].b = NodeAt(last.arg, a)

\* A folder holding a folder with two bookmarks, and a bookmark after it
C20_Witness ==
    /\ last.op = "All"
    /\ Len(last.res) = 5
    /\ Len(last.arg.Children) = 2
    /\ Len(last.arg.Children[1].Children) = 2
    /\ last.arg.Children[1].Children[1] # last.arg.Children[1].Children[2]
    /\ last.res[5].b = last.arg.Children[2]

(***************************************************************************)
(* Bookmark.Path against Bookmark.All.                                     *)
(***************************************************************************)

\* The titles from the root down to the node at an address
RECURSIVE ChainOf(_, _)
ChainOf(t, a) == IF a = <<>> THEN <<t.Title>> ELSE <<t.Title>> \o ChainOf(t.Children[a[1]], Tail(a))

\* No folder of the tree has two children of one title
UniqueSiblings(t) ==
    \A a \in Addrs(t) : \A i, j \in 1..Len(NodeAt(t, a).Children) :
        NodeAt(t, a).Children[i].Title = NodeAt(t, a).Children[j].Title => i = j

ProbePaths == {"", "R", "R/", "R/F", "R/F/A", "R/F/B", "R/A", "R/B/A", "F", "F/A", "A", "/A", "/B", "X"}

\* C21: in a tree whose siblings have different titles (no title holding
\* "/"), Path of the path that All yields with a node returns that node, and
\* Path of a path that is the title chain of no node returns nil.
C21_PathRoundTrip ==
    (last.op = "All" /\ UniqueSiblings(last.arg)) =>
        /\ \A i \in 1..Len(last.res) : Path(last.arg, last.res[i].path) = last.res[i].b
        /\ \A p \in ProbePaths :
              (\A a \in Addrs(last.arg) : Split(p, "/") # ChainOf(last.arg, a)) =>
                  Path(last.arg, p) = Nil

(***************************************************************************)
(* BookmarksRoot.Path over the four top-level folders.                     *)
(***************************************************************************)

\* C22: the lookup on the root finds each of the top-level folders menu,
\* mobile, toolbar and unfiled by its name, and the folder docs below
\* toolbar by its path.
C22_LookupKnowsFourRoots ==
    /\ \A name \in {"menu", "mobile", "toolbar", "unfiled"} : RootPath(root, name) = root[name]
    /\ RootPath(root, "toolbar/docs") = root.toolbar.Children[1]

\* C23: BuildCache returns a cache whatever the files hold: it has an id
\* if and only if a readable file named *.md has a metadata block that
\* parses and carries that id, and never the empty id.
C23_BuildCacheSkipsBadFiles ==
    last.op = "BuildCache" =>
        /\ "" \notin last.res
        /\ \A id \in last.res \cup {"b2", "b3", "b4"} :
              id \in last.res <=>
                  \E f \in DOMAIN last.arg \ last.bad :
                      /\ HasSuffix(f, ".md")
                      /\ ParseFrontmatter(last.arg[f]).ok
                      /\ ParseFrontmatter(last.arg[f]).matter.id = id

\* One bookmark file is found beside a file that does not parse and an
\* unreadable bookmark file
C23_Witness ==
    /\ last.op = "BuildCache"
    /\ DOMAIN last.arg = FileNames
    /\ last.bad = {"2021.md"}
    /\ last.arg["2021.md"] = last.arg["notes.txt"]
    /\ ~ParseFrontmatter(last.arg["docs/example.com - Go.md"]).ok
    /\ ParseFrontmatter(last.arg["notes.txt"]).matter.id = "b2"
    /\ last.res = {}

(***************************************************************************)
(* fixMarkdownLinks over texts built from plain text and references.       *)
(***************************************************************************)

LinkTargets == {"x.md", "/p.png", "../up", "#f", "", "//cdn.test/i.png",
                "https://h.test/x", "http://h.test", "data:image/png;base64,AA"}

\* A reference: the image marker, the text, the target
Refs == [bang : BOOLEAN, text : {"d", ""}, link : LinkTargets]

LaterRefs == [bang : {FALSE}, text : {"t"}, link : {"y", "https://h.test/y"}]

PageBases == {"https://example.com/a/", "https://example.com/a", "https://example.com",
              "https://example.com/a//"}

RenderRef(r) == (IF r.bang THEN "!" ELSE "") \o "[" \o r.text \o "](" \o r.link \o ")"

\* fixMarkdownLinks on the text "see " ref1 mid ref2 " end"
FixLinksCall ==
    /\ last = NoCall
    /\ \E r1 \in Refs, r2 \in LaterRefs, mid \in {" and\n", ""}, base \in PageBases :
          last' = [op |-> "fixMarkdownLinks", refs |-> <<r1, r2>>, mid |-> mid, base |-> base,
                   res |-> fixMarkdownLinks("see " \o RenderRef(r1) \o mid \o RenderRef(r2) \o " end",
                                            base)]
    /\ UNCHANGED <<cfg, cacheData, proc, calls, stored, llmStored>>
    /\ UNCHANGED syncVars

NextLinks == FixLinksCall

SpecLinks == InitGitHub /\ [][NextLinks]_vars

RECURSIVE TrimLeadingSlashes(_)
TrimLeadingSlashes(s) == IF HasPrefix(s, "/") THEN TrimLeadingSlashes(Tail(s)) ELSE s

\* A reference as C24 states it: left alone when its target starts with
\* http://, https:// or data:, otherwise pointed at the base without its
\* trailing slash followed by the target with exactly one leading slash
RewrittenRef(r, base) ==
    IF HasPrefix(r.link, "http://") \/ HasPrefix(r.link, "https://") \/ HasPrefix(r.link, "data:")
    THEN RenderRef(r)
    ELSE RenderRef([r EXCEPT !.link = TrimSuffix(base, "/") \o "/" \o TrimLeadingSlashes(r.link)])

\* C24: every reference with a target that is not absolute and not a data
\* URL is rewritten to the base URL, its trailing slash stripped, followed
\* by the target with exactly one leading slash, marker and text kept; all
\* other references and all other text are unchanged.
C24_LinksRewrittenAgainstBase ==
    last.op = "fixMarkdownLinks" =>
        last.res = "see " \o RewrittenRef(last.refs[1], last.base) \o last.mid
                   \o RewrittenRef(last.refs[2], last.base) \o " end"

(***************************************************************************)
(* The paths of the bookmark files.                                        *)
(***************************************************************************)

\* C25: two bookmarks of different ids that a run writes are written to
\* different paths, so no bookmark's file is overwritten by another's.
C25_NoFileOverwritten ==
    \A i, j \in Events({"write"}) : log[i][3] = log[j][3] => log[i][2] = log[j][2]

\* The URLs, in the order of the walk, of the live bookmarks outside ignored
\* folders that the cache lacks and the gallery has not captured: what the
\* walk of the run will try to sync, less the captured ones
WalkUnsynced(cache) ==
    URIsOf(SelectSeq(All(Target),
                     LAMBDA e : /\ IsLive(e.b)
                                /\ ~UnderIgnored(e)
                                /\ e.b.ID \notin cache
                                /\ e.b.URI \notin Gallery))

\* C26: the batch submitted for capture has one URL for each bookmark that
\* the walk of the same run tries to sync (and that has no capture), and
\* none for a bookmark under an ignored folder.
C26_SubmitMatchesWalk ==
    [][Starts => Batch(log') = WalkUnsynced(mdCache')]_vars

\* ---------------------------------------------------------------------------
\* Retry: the program is started again and again on the same tree. The number
\* of the run stops counting at MaxRuns; at most MaxFailures external calls or
\* writes fail in all, so that every one of them succeeds in the end.

RunAgain ==
    /\ pc \in {"done", "exit1", "crashed"}
    /\ run' = IF run < MaxRuns THEN run + 1 ELSE run
    /\ pc' = "idle"
    /\ prevClean' = (pc = "done" /\ NoFailure(log))
    /\ mdCache' = {}
    /\ stack' = <<>>
    /\ log' = <<>>
    /\ UNCHANGED <<cfg, cacheData, files, dirs, faults>>
    /\ UNCHANGED <<root, baseFolder, ignoreFolders>>
    /\ UNCHANGED <<proc, calls, last, stored, llmStored>>

NextRetry ==
    \/ StartRun
    \/ VisitCached
    \/ CreateBookmark
    \/ SkipIgnoredFolder
    \/ EnterFolder
    \/ VisitOther
    \/ ReturnFolder
    \/ CreateYearIndexes
    \/ RunAgain

\* A run is a sequential program over a finite tree and comes to its end,
\* and the program is started again whenever it has ended
SpecRetry ==
    /\ Init
    /\ [][NextRetry]_vars
    /\ WF_vars(RunAgain)
    /\ []<>(pc \in {"done", "exit1", "crashed"})

\* The ids of the live bookmarks of the base folder outside ignored folders
EligibleIDs == {e.b.ID : e \in {x \in Entries : IsLive(x.b) /\ ~UnderIgnored(x)}}

\* The run under way has resolved and written nothing, and the Output Cache
\* built at its start, which is then the cache it still has, holds every
\* eligible id
Converged ==
    /\ Events({"fetch", "write"}) = {}
    /\ pc \in {"walk", "index", "done"} => EligibleIDs \subseteq mdCache

\* C27: on an unchanged tree, when the external calls and the writes succeed
\* in the end, from some run on the Output Cache built at the start holds
\* every eligible bookmark's id and no run resolves or writes a bookmark.
C27_ConvergenceUnderRetry == <>[]Converged

\* C28: a first run against an output directory that does not exist, in
\* which no call and no write was made to fail, has written the file of
\* every eligible bookmark, direct children of the base folder included,
\* and the index of every eligible year, once it has ended.
C28_FirstRunCreatesOutputDir ==
    (/\ run = 1
     /\ pc \in {"done", "exit1", "crashed"}
     /\ Target # Nil
     /\ faults = 0
     /\ cfg.cache = "ok") =>
        /\ EligibleIDs \subseteq {log[i][2] : i \in Events({"write"})}
        /\ \A y \in EligibleYears : (y \o ".md") \in DOMAIN files

\* C29: with a working cache, a cleanup call never panics: it returns a
\* cleaned string or an error, and a completion that carries no choices is
\* returned as an error, after which FetchContent goes on with the uncleaned
\* content.
C29_NoChoicesIsAnError ==
    /\ (last.op = "CleanMarkdown" /\ cfg.cache = "ok") =>
          /\ ~last.res.panic
          /\ (last.env.llm = "nochoices" /\ last.llmPrior = <<>>) => ~last.res.ok
    /\ (IsFetchOf({"example.com"}) /\ cfg.cache = "ok" /\ last.env.llm = "nochoices") =>
          ~last.res.panic

\* C30: when the consumer of Bookmark.All stops after a pair, it has seen
\* the pairs up to that one in order, the producer has called yield for no
\* further node, and the program has not panicked.
C30_AllStopsWithConsumer ==
    last.op = "AllBreak" =>
        /\ last.res.seen = SubSeq(All(last.arg), 1, last.stop)
        /\ last.res.yields = last.stop
        /\ ~last.res.panic

====
